---- MODULE Spec2Model ----
(***************************************************************************)
(* split-pro: the user router's ledger procedures (deleteExpense,          *)
(* deleteFriend, getBalancesWithFriend), the friend page's derived lists   *)
(* and the Splitwise import page, as state machines.                       *)
(*                                                                         *)
(* The store is the Balance table (one row per (userId, friendId,          *)
(* currency)) and the Expense table with its ExpenseParticipant rows.      *)
(* Every `await db....` of a handler is one step: a handler with several   *)
(* store calls (deleteFriend) is several steps, and other requests may     *)
(* run between them.  The expense service (splitService) is not part of    *)
(* the sources at hand; its operations are modelled from the written       *)
(* specification and are atomic, as the specification requires.            *)
(***************************************************************************)
EXTENDS Integers, Sequences, FiniteSets, TLC

\* ------------------------------------------------------------------ bounds
MaxExpenses == 2
MaxClock == 3
MaxChoices == 3

Users == {1, 2, 3}
Currencies == {"EUR", "USD"}

\* Who pays and who shares an expense: user 1 pays and user 2 shares; user 3
\* takes part in none.
Pairs == {<<1, 2>>}

\* The share of the other participant in an expense.
ShareAmounts == {5}

\* The (user, friendId) inputs of the friend requests: both directions of the
\* pair that shares expenses, and a friend the user shares none with.
FriendRequests == {<<1, 2>>, <<2, 1>>, <<1, 3>>}

\* Rank of a currency code in the order of the codes ("EUR" < "USD").
CurrencyRank(c) == IF c = "EUR" THEN 1 ELSE 2

VARIABLES
    balances,   \* Balance table: <<userId, friendId, currency>> -> amount
    expenses,   \* Expense table: sequence, the expense id is the index
    clock,      \* the server's time: the number of ledger writes so far
    df,         \* the deleteFriend request in flight: [pc, user, friend]
    overlapped, \* history: a ledger write ran while deleteFriend was in flight
    last        \* the response of the request that completed last; a response is
                \* kept only until the store is written again

ledgerVars == <<balances, expenses, clock, df, overlapped, last>>

\* The import page (pages/import-splitwise.tsx)
VARIABLES
    usersWithBalance, \* useState: the friends kept from the chosen file
    groups,           \* useState: the groups kept from the chosen file
    selectedUsers,    \* useState: friend id -> checked
    selectedGroups,   \* useState: group id -> checked
    uploadedFile,     \* useState: the chosen file, 0 for null
    reads,            \* the files whose `await file.text()` has not resolved yet
    choices,          \* the number of files chosen so far
    importMutation,   \* the importUsersFromSplitWise mutation: status and input
    toast,            \* the toast shown last
    lastRead          \* history: the file whose read resolved last, and how it ended

importPageVars == <<usersWithBalance, groups, selectedUsers, selectedGroups, uploadedFile,
                    reads, choices, importMutation, toast, lastRead>>

\* The User and Group tables, the import request, the friend page and the
\* account page.
VARIABLES
    userTable,    \* User table: id -> email
    groupTable,   \* Group table: sequence of [splitwiseGroupId, members]
    imp,          \* the importUsersFromSplitWise request in flight
    importResult, \* how the last importUsersFromSplitWise request ended
    prev,         \* history: the store the first of the successive successful imports
                  \* of one input left, and whether more than one has run
    friendPage,   \* pages/balances/[friendId].tsx: the route and the balances query
    account       \* pages/account.tsx: downloading, and where downloadData stands

tableVars == <<userTable, groupTable>>
importVars == <<imp, importResult, prev>>
extraVars == <<tableVars, importVars, friendPage, account>>

serverVars == <<ledgerVars, extraVars>>
pageVars == <<importPageVars, extraVars>>

vars == <<serverVars, pageVars>>

\* ------------------------------------------------------------ store helpers
Amt(bal, k) == IF k \in DOMAIN bal THEN bal[k] ELSE 0

Row(bal, k) == [userId |-> k[1], friendId |-> k[2], currency |-> k[3], amount |-> bal[k]]

\* All orderings of a finite set, as sequences without repetition.
Orderings(S) ==
    {s \in [1..Cardinality(S) -> S] : \A i, j \in 1..Cardinality(S) : s[i] = s[j] => i = j}

NoRows == << >>

Completed(op, u, f, e, err, rows) ==
    [op |-> op, user |-> u, friend |-> f, expense |-> e, err |-> err, rows |-> rows]

NoResponse == Completed("none", 0, 0, 0, "OK", NoRows)

Idle == [pc |-> "idle", user |-> 0, friend |-> 0]

\* The e-mail address of each signed-up user.
SessionEmail(u) == CASE u = 1 -> "one@mail" [] u = 2 -> "two@mail" [] OTHER -> "three@mail"

NoImport == [pc |-> "idle", user |-> 0, input |-> 0, done |-> 0, groupsBefore |-> << >>]
NoImportResult == [status |-> "none", phase |-> "none", user |-> 0, input |-> 0, groupsBefore |-> << >>]
NoPrev == [user |-> 0, input |-> 0, runs |-> 0,
           balances |-> << >>, userTable |-> << >>, groupTable |-> << >>]

ClosedFriendPage == [open |-> FALSE, user |-> 0, friendId |-> 0, defined |-> FALSE, data |-> NoRows]
NoFile == [friends |-> {}, groups |-> {}]
AccountPageOpen == [downloading |-> FALSE, pc |-> "idle", user |-> 0, file |-> NoFile]

\* ------------------------------------------------- expense service (ledger)
\* The ExpenseParticipant rows of an expense: the payer and everyone with a share.
Participants(exp) == {exp.paidBy} \cup DOMAIN exp.shares

IsParticipant(exps, e, u) == e \in DOMAIN exps /\ u \in Participants(exps[e])

\* The signed contribution of an expense to a balance row: the payer is owed
\* each share, and each sharer owes it.
Contribution(exp, k) ==
    IF k[3] # exp.currency THEN 0
    ELSE IF k[1] = exp.paidBy /\ k[2] \in DOMAIN exp.shares THEN exp.shares[k[2]]
    ELSE IF k[2] = exp.paidBy /\ k[1] \in DOMAIN exp.shares THEN 0 - exp.shares[k[1]]
    ELSE 0

Touched(exp) ==
    UNION {{<<exp.paidBy, p, exp.currency>>, <<p, exp.paidBy, exp.currency>>} :
             p \in DOMAIN exp.shares}

\* Upsert of both mirrored rows of every (payer, sharer) pair, sign = 1 to
\* apply the expense and -1 to reverse it.
ApplyExpenseDelta(bal, exp, sign) ==
    [k \in DOMAIN bal \cup Touched(exp) |-> Amt(bal, k) + sign * Contribution(exp, k)]

NewExpense(payer, sharer, c, s) ==
    [paidBy |-> payer, currency |-> c, shares |-> (sharer :> s),
     deletedBy |-> 0, deletedAt |-> 0]

\* Every ledger write is a transaction of its own; the server's time advances.
LedgerWrite ==
    /\ clock < MaxClock
    /\ clock' = clock + 1
    /\ overlapped' = (overlapped \/ df.pc # "idle")

AddExpense(payer, sharer, c, s) ==
    /\ Len(expenses) < MaxExpenses
    /\ expenses' = Append(expenses, NewExpense(payer, sharer, c, s))
    /\ balances' = ApplyExpenseDelta(balances, NewExpense(payer, sharer, c, s), 1)
    /\ LedgerWrite
    /\ last' = NoResponse
    /\ UNCHANGED <<df, pageVars>>

\* Editing reverses the previous contribution and applies the new one.
EditExpense(e, u, payer, sharer, c, s) ==
    /\ e \in DOMAIN expenses
    /\ expenses[e].deletedBy = 0
    /\ u \in Participants(expenses[e])
    /\ NewExpense(payer, sharer, c, s) # expenses[e]
    /\ expenses' = [expenses EXCEPT ![e] = NewExpense(payer, sharer, c, s)]
    /\ balances' = ApplyExpenseDelta(ApplyExpenseDelta(balances, expenses[e], -1),
                                      NewExpense(payer, sharer, c, s), 1)
    /\ LedgerWrite
    /\ last' = NoResponse
    /\ UNCHANGED <<df, pageVars>>

\* splitService.deleteExpense: records who deleted and when, reverses the
\* contribution; it runs unconditionally.
ServiceDeleteExpense(e, u) ==
    /\ expenses' = [expenses EXCEPT ![e].deletedBy = u, ![e].deletedAt = clock + 1]
    /\ balances' = ApplyExpenseDelta(balances, expenses[e], -1)
    /\ LedgerWrite

\* ------------------------------------------------------------- user router
\* A lookup of the expense in place of the caller's participant row.
NotParticipantOf_ExpenseOnly(e, u) == e \notin DOMAIN expenses

\* db.expenseParticipant.findUnique({expenseId_userId}) is null
NotParticipantOf(e, u) == ~IsParticipant(expenses, e, u)

DeleteExpense(e, u) ==
    /\ UNCHANGED pageVars
    /\ IF NotParticipantOf(e, u)
       THEN /\ last' = Completed("deleteExpense", u, 0, e, "UNAUTHORIZED", NoRows)
            /\ UNCHANGED <<balances, expenses, clock, df, overlapped>>
       ELSE /\ ServiceDeleteExpense(e, u)
            /\ last' = Completed("deleteExpense", u, 0, e, "OK", NoRows)
            /\ UNCHANGED df

\* The query without its `amount: {not: 0}` condition.
FindManyBalances_WithZero(bal, u, f) ==
    {Row(bal, k) : k \in {x \in DOMAIN bal : x[1] = u /\ x[2] = f}}

\* db.balance.findMany({where: {userId, friendId, amount: {not: 0}}})
FindManyBalances(bal, u, f) ==
    {Row(bal, k) : k \in {x \in DOMAIN bal : x[1] = u /\ x[2] = f /\ bal[x] # 0}}

\* The query written so that it also prunes the settled rows of the pair.
GetBalancesWithFriend_Pruning(u, f) ==
    /\ \E rows \in Orderings(FindManyBalances(balances, u, f)) :
          last' = Completed("getBalancesWithFriend", u, f, 0, "OK", rows)
    /\ balances' = [k \in {x \in DOMAIN balances :
                              ~(x[1] = u /\ x[2] = f /\ balances[x] = 0)} |-> balances[k]]
    /\ UNCHANGED <<expenses, clock, df, overlapped, pageVars>>

\* The rows come back in an order the query does not state.
GetBalancesWithFriend(u, f) ==
    /\ \E rows \in Orderings(FindManyBalances(balances, u, f)) :
          last' = Completed("getBalancesWithFriend", u, f, 0, "OK", rows)
    /\ UNCHANGED <<balances, expenses, clock, df, overlapped, pageVars>>

\* db.balance.deleteMany({where: {userId, friendId}})
DeleteManyBalances(bal, u, f) ==
    [k \in {x \in DOMAIN bal : ~(x[1] = u /\ x[2] = f)} |-> bal[k]]

\* The handler with its first deleteMany ahead of the check.
DeleteFriendCheck_DeleteBeforeCheck(u, f) ==
    /\ df.pc = "idle"
    /\ IF 0 < Cardinality(FindManyBalances(balances, u, f))
       THEN /\ last' = Completed("deleteFriend", u, f, 0, "BAD_REQUEST", NoRows)
            /\ balances' = DeleteManyBalances(balances, f, u)
            /\ UNCHANGED df
       ELSE /\ df' = [pc |-> "checked", user |-> u, friend |-> f]
            /\ last' = NoResponse
            /\ UNCHANGED balances
    /\ UNCHANGED <<expenses, clock, overlapped, pageVars>>

DeleteFriendCheck(u, f) ==
    /\ df.pc = "idle"
    /\ IF 0 < Cardinality(FindManyBalances(balances, u, f))
       THEN /\ last' = Completed("deleteFriend", u, f, 0, "BAD_REQUEST", NoRows)
            /\ UNCHANGED df
       ELSE /\ df' = [pc |-> "checked", user |-> u, friend |-> f]
            /\ last' = NoResponse
    /\ UNCHANGED <<balances, expenses, clock, overlapped, pageVars>>

DeleteFriendFirst ==
    /\ df.pc = "checked"
    /\ balances' = DeleteManyBalances(balances, df.friend, df.user)
    /\ df' = [df EXCEPT !.pc = "deleted1"]
    /\ last' = NoResponse
    /\ UNCHANGED <<expenses, clock, overlapped, pageVars>>

\* The handler without its second deleteMany.
DeleteFriendSecond_NoDelete ==
    /\ df.pc = "deleted1"
    /\ df' = Idle
    /\ last' = Completed("deleteFriend", df.user, df.friend, 0, "OK", NoRows)
    /\ UNCHANGED <<balances, expenses, clock, overlapped, pageVars>>

DeleteFriendSecond ==
    /\ df.pc = "deleted1"
    /\ balances' = DeleteManyBalances(balances, df.user, df.friend)
    /\ df' = Idle
    /\ last' = Completed("deleteFriend", df.user, df.friend, 0, "OK", NoRows)
    /\ UNCHANGED <<expenses, clock, overlapped, pageVars>>

\* A User row as the queries return it.
UserRow(id) == [id |-> id, email |-> userTable[id]]

\* db.balance.findMany({where: {userId}, select: {friendId}, distinct: ['friendId']})
FriendsIds(bal, u) == {k[2] : k \in {x \in DOMAIN bal : x[1] = u}}

\* db.user.findMany({where: {id: {in: friendsIds}}}), in an order the query
\* does not state.
GetFriends(u) ==
    /\ \E rows \in Orderings({UserRow(id) : id \in FriendsIds(balances, u) \cap DOMAIN userTable}) :
          last' = Completed("getFriends", u, 0, 0, "OK", rows)
    /\ UNCHANGED <<balances, expenses, clock, df, overlapped, pageVars>>

\* db.user.findUnique({where: {id: friendId, userBalances: {some: {friendId: caller}}}}):
\* the user, or null (no row).
GetFriend(u, f) ==
    /\ last' = Completed("getFriend", u, f, 0, "OK",
                         IF f \in DOMAIN userTable /\ u \in FriendsIds(balances, f)
                         THEN <<UserRow(f)>> ELSE NoRows)
    /\ UNCHANGED <<balances, expenses, clock, df, overlapped, pageVars>>

\* getCompleteFriendsDetails(userId): the caller's balance rows with each friend.
GetCompleteFriendsDetails(u) == {Row(balances, k) : k \in {x \in DOMAIN balances : x[1] = u}}

\* getCompleteGroupDetails(userId): the groups the caller is a member of.
GetCompleteGroupDetails(u) ==
    {groupTable[i] : i \in {j \in DOMAIN groupTable : u \in groupTable[j].members}}

\* downloadData: declared a mutation, it only reads.
DownloadData(u) ==
    /\ last' = Completed("downloadData", u, 0, 0, "OK",
                         <<[friends |-> GetCompleteFriendsDetails(u),
                            groups |-> GetCompleteGroupDetails(u)]>>)
    /\ UNCHANGED <<balances, expenses, clock, df, overlapped, pageVars>>

\* ------------------------------------------------------------ friend page
Positive(b) == 0 < b.amount
Negative(b) == 0 > b.amount
YouLent(data) == SelectSeq(data, Positive)

\* The second filter written with the comparison of the first.
YouOwe_Positive(data) == SelectSeq(data, Positive)

YouOwe(data) == SelectSeq(data, Negative)

\* The friendId segments of the route: 0 stands for one that parseInt turns
\* into NaN or 0, which keeps the queries disabled.
RouteFriendIds == {0, 1, 2}

\* The page mounts: no query has returned, balances.data is undefined.
FriendPageOpened(u, f) ==
    /\ u # f
    /\ friendPage' = [open |-> TRUE, user |-> u, friendId |-> f, defined |-> FALSE, data |-> NoRows]
    /\ UNCHANGED <<ledgerVars, importPageVars, tableVars, importVars, account>>

\* The getBalancesWithFriend query (enabled: !!_friendId) returns, or returns
\* again after a refetch.
FriendPageBalancesFetched ==
    /\ friendPage.open
    /\ friendPage.friendId # 0
    /\ \E rows \in Orderings(FindManyBalances(balances, friendPage.user, friendPage.friendId)) :
          friendPage' = [friendPage EXCEPT !.defined = TRUE, !.data = rows]
    /\ UNCHANGED <<ledgerVars, importPageVars, tableVars, importVars, account>>

\* disabled={!(0 === youLent?.length && 0 === youOwe?.length)}: with
\* balances.data undefined both lengths are undefined and neither equals 0.
DeleteFriendDisabled ==
    ~(/\ friendPage.defined
      /\ 0 = Len(YouLent(friendPage.data))
      /\ 0 = Len(YouOwe(friendPage.data)))

\* ------------------------------------------------------------ import page
\* The export files a user may choose.  A file is its text: whether it parses
\* as JSON, and the fields the parsed object has.  A field that is absent is
\* marked so (hasFriends, hasBalance, hasGroups, hasMembers).
Entry(c, a) == [currency_code |-> c, amount |-> a]

Friend(id, status, hasBalance, balance) ==
    [id |-> id, registration_status |-> status, hasBalance |-> hasBalance,
     balance |-> balance]

Group(id, hasMembers, members) == [id |-> id, hasMembers |-> hasMembers, members |-> members]

ExportFile(json, hasFriends, friends, hasGroups, grps) ==
    [json |-> json, hasFriends |-> hasFriends, friends |-> friends,
     hasGroups |-> hasGroups, groups |-> grps]

Alice == Friend(11, "confirmed", TRUE, <<Entry("EUR", 5)>>)
Bob == Friend(12, "confirmed", TRUE, << >>)
Carol == Friend(13, "invited", TRUE, <<Entry("USD", 7)>>)
Dave == Friend(14, "confirmed", TRUE, <<Entry("USD", -3)>>)
Erin == Friend(15, "confirmed", FALSE, << >>)

NonGroup == Group(0, TRUE, <<11, 12>>)
Trip == Group(21, TRUE, <<11, 13>>)
Empty == Group(22, TRUE, << >>)
Flat == Group(23, TRUE, <<14>>)
Broken == Group(24, FALSE, << >>)

FileContent(f) ==
    CASE f = 1 -> ExportFile(TRUE, TRUE, <<Alice, Bob, Carol>>, TRUE, <<NonGroup, Trip, Empty>>)
      [] f = 2 -> ExportFile(TRUE, TRUE, <<Dave>>, TRUE, <<Flat>>)
      [] f = 3 -> ExportFile(FALSE, FALSE, << >>, FALSE, << >>)
      [] f = 4 -> ExportFile(TRUE, TRUE, <<Dave>>, FALSE, << >>)
      [] f = 5 -> ExportFile(TRUE, FALSE, << >>, TRUE, <<Flat>>)
      [] f = 6 -> ExportFile(TRUE, TRUE, <<Dave, Erin>>, TRUE, <<Flat>>)
      [] OTHER -> ExportFile(TRUE, TRUE, <<Alice>>, TRUE, <<Flat, Broken>>)

Files == 1..7

Range(seq) == {seq[i] : i \in DOMAIN seq}

\* JSON.parse, iterating json.friends, or reading balance.length throws
FriendsThrow(file) ==
    \/ ~file.json
    \/ ~file.hasFriends
    \/ \E i \in DOMAIN file.friends : ~file.friends[i].hasBalance

\* balance.length && 'confirmed' === friend.registration_status
KeepFriend(friend) ==
    Len(friend.balance) # 0 /\ friend.registration_status = "confirmed"

FriendsWithOutStandingBalance(file) == SelectSeq(file.friends, KeepFriend)

\* json.groups.filter or g.members.length throws
GroupsThrow(file) ==
    \/ ~file.hasGroups
    \/ \E i \in DOMAIN file.groups : ~file.groups[i].hasMembers

\* The filter without its test of the group id.
KeepGroup_AnyId(g) == 0 < Len(g.members)

\* 0 < g.members.length && 0 !== g.id
KeepGroup(g) == 0 < Len(g.members) /\ 0 # g.id

FilteredGroups(file) == SelectSeq(file.groups, KeepGroup)

\* list.reduce((acc, x) => { acc[x.id] = true; return acc }, {})
SelectAll(list) == [id \in {list[i].id : i \in DOMAIN list} |-> TRUE]

Checked(selected, id) == id \in DOMAIN selected /\ selected[id]

PageOpen == importMutation.status # "success"

NoInput == [usersWithBalance |-> << >>, groups |-> << >>]

\* handleFileChange up to its `await file.text()`
HandleFileChange(f) ==
    /\ PageOpen
    /\ choices < MaxChoices
    /\ choices' = choices + 1
    /\ uploadedFile' = f
    /\ reads' = reads \cup {f}
    /\ UNCHANGED <<usersWithBalance, groups, selectedUsers, selectedGroups,
                   importMutation, toast, lastRead, serverVars>>

\* handleFileChange from the resolution of `await file.text()` to its end
FileTextResolved(f) ==
    /\ PageOpen
    /\ f \in reads
    /\ reads' = reads \ {f}
    /\ LET file == FileContent(f)
       IN IF FriendsThrow(file)
          THEN /\ toast' = "Error importing file"
               /\ lastRead' = [file |-> f, outcome |-> "error"]
               /\ UNCHANGED <<usersWithBalance, selectedUsers, groups, selectedGroups>>
          ELSE /\ usersWithBalance' = FriendsWithOutStandingBalance(file)
               /\ selectedUsers' = SelectAll(FriendsWithOutStandingBalance(file))
               /\ IF GroupsThrow(file)
                  THEN /\ toast' = "Error importing file"
                       /\ lastRead' = [file |-> f, outcome |-> "error"]
                       /\ UNCHANGED <<groups, selectedGroups>>
                  ELSE /\ groups' = FilteredGroups(file)
                       /\ selectedGroups' = SelectAll(FilteredGroups(file))
                       /\ lastRead' = [file |-> f, outcome |-> "ok"]
                       /\ UNCHANGED toast
    /\ UNCHANGED <<uploadedFile, choices, importMutation, serverVars>>

\* onCheckedChange of a friend's checkbox
ToggleUser(i, checked) ==
    /\ PageOpen
    /\ uploadedFile # 0
    /\ i \in DOMAIN usersWithBalance
    /\ selectedUsers' =
          [id \in DOMAIN selectedUsers \cup {usersWithBalance[i].id} |->
              IF id = usersWithBalance[i].id THEN checked ELSE selectedUsers[id]]
    /\ UNCHANGED <<usersWithBalance, groups, selectedGroups, uploadedFile, reads,
                   choices, importMutation, toast, lastRead, serverVars>>

\* onCheckedChange of a group's checkbox
ToggleGroup(i, checked) ==
    /\ PageOpen
    /\ uploadedFile # 0
    /\ i \in DOMAIN groups
    /\ selectedGroups' =
          [id \in DOMAIN selectedGroups \cup {groups[i].id} |->
              IF id = groups[i].id THEN checked ELSE selectedGroups[id]]
    /\ UNCHANGED <<usersWithBalance, groups, selectedUsers, uploadedFile, reads,
                   choices, importMutation, toast, lastRead, serverVars>>

UserChecked(user) == Checked(selectedUsers, user.id)
GroupChecked(group) == Checked(selectedGroups, group.id)

\* The Import button: disabled={importMutation.isPending || !uploadedFile}
ImportEnabled == PageOpen /\ importMutation.status # "pending" /\ uploadedFile # 0

OnImport ==
    /\ ImportEnabled
    /\ importMutation' =
          [status |-> "pending",
           input |-> [usersWithBalance |-> SelectSeq(usersWithBalance, UserChecked),
                      groups |-> SelectSeq(groups, GroupChecked)]]
    /\ UNCHANGED <<usersWithBalance, groups, selectedUsers, selectedGroups, uploadedFile,
                   reads, choices, toast, lastRead, serverVars>>

\* onSuccess: the toast, and router.push('/balances') leaves the page
ImportSucceeded ==
    /\ importMutation.status = "pending"
    /\ importMutation' = [importMutation EXCEPT !.status = "success"]
    /\ toast' = "Import successful"
    /\ UNCHANGED <<usersWithBalance, groups, selectedUsers, selectedGroups, uploadedFile,
                   reads, choices, lastRead, serverVars>>

ImportFailed ==
    /\ importMutation.status = "pending"
    /\ importMutation' = [importMutation EXCEPT !.status = "error"]
    /\ UNCHANGED <<usersWithBalance, groups, selectedUsers, selectedGroups, uploadedFile,
                   reads, choices, toast, lastRead, serverVars>>

\* ------------------------------------------------------- import (server)
\* The e-mail address of each person of the export: friend 11 is the
\* signed-up user 2, the others are not signed up.
ExternalEmail(id) ==
    CASE id = 11 -> SessionEmail(2) [] id = 13 -> "carol@mail" [] id = 14 -> "dave@mail"
      [] OTHER -> "bob@mail"

\* The inputs of importUsersFromSplitWise: what the page submits for file 1
\* with everything checked, and for file 2.
ImportInput(n) ==
    IF n = 1 THEN [usersWithBalance |-> <<Alice, Dave>>, groups |-> <<Trip, Flat>>]
    ELSE [usersWithBalance |-> <<Dave>>, groups |-> <<Flat>>]

\* (importing user, input) of the requests.
ImportRequests == {<<1, 1>>, <<1, 2>>, <<3, 2>>}

\* The addresses friends are invited with.
InviteEmails == {"dave@mail", "erin@mail"}

HasEmail(tbl, email) == \E id \in DOMAIN tbl : tbl[id] = email

\* db.user.findUnique({where: {email}})
UserByEmail(tbl, email) == CHOOSE id \in DOMAIN tbl : tbl[id] = email

NextUserId(tbl) == 1 + Cardinality(DOMAIN tbl)

\* db.user.create without the lookup before it.
FindOrCreateUser_AlwaysCreate(tbl, email) ==
    [id \in DOMAIN tbl \cup {NextUserId(tbl)} |-> IF id \in DOMAIN tbl THEN tbl[id] ELSE email]

\* findUnique by email, and db.user.create when there is none.
FindOrCreateUser(tbl, email) ==
    IF HasEmail(tbl, email) THEN tbl
    ELSE [id \in DOMAIN tbl \cup {NextUserId(tbl)} |-> IF id \in DOMAIN tbl THEN tbl[id] ELSE email]

\* inviteFriend: returns the user with this address, creating it when absent.
InviteFriend(u, email) ==
    /\ userTable' = FindOrCreateUser(userTable, email)
    /\ prev' = IF userTable' = userTable THEN prev ELSE NoPrev
    /\ UNCHANGED <<ledgerVars, importPageVars, groupTable, imp, importResult, friendPage, account>>

\* The two mirrored rows of (user, friend, currency) are set to the external
\* amount: created when absent, updated in place when present.
ApplyExternalBalance(bal, u, f, entry) ==
    [k \in DOMAIN bal \cup {<<u, f, entry.currency_code>>, <<f, u, entry.currency_code>>} |->
        IF k = <<u, f, entry.currency_code>> THEN entry.amount
        ELSE IF k = <<f, u, entry.currency_code>> THEN 0 - entry.amount
        ELSE bal[k]]

RECURSIVE ApplyExternalBalances(_, _, _, _)
ApplyExternalBalances(bal, u, f, entries) ==
    IF entries = << >> THEN bal
    ELSE ApplyExternalBalances(ApplyExternalBalance(bal, u, f, Head(entries)), u, f, Tail(entries))

RECURSIVE FindOrCreateUsers(_, _)
FindOrCreateUsers(tbl, ids) ==
    IF ids = << >> THEN tbl
    ELSE FindOrCreateUsers(FindOrCreateUser(tbl, ExternalEmail(Head(ids))), Tail(ids))

HasGroup(tbl, gid) == \E i \in DOMAIN tbl : tbl[i].splitwiseGroupId = gid

GroupIndex(tbl, gid) == CHOOSE i \in DOMAIN tbl : tbl[i].splitwiseGroupId = gid

\* The group with this external id gets the importing user and the local
\* users of its external members: created when absent, updated in place.
UpsertGroup(tbl, users, u, g) ==
    IF HasGroup(tbl, g.id)
    THEN [tbl EXCEPT ![GroupIndex(tbl, g.id)].members =
              @ \cup {u} \cup {UserByEmail(users, ExternalEmail(g.members[i])) : i \in DOMAIN g.members}]
    ELSE Append(tbl, [splitwiseGroupId |-> g.id,
                      members |-> {u} \cup {UserByEmail(users, ExternalEmail(g.members[i])) :
                                               i \in DOMAIN g.members}])

\* The mutation is called: importUserBalanceFromSplitWise begins.
ImportStart(u, n) ==
    /\ imp.pc = "idle"
    /\ imp' = [pc |-> "users", user |-> u, input |-> n, done |-> 0, groupsBefore |-> groupTable]
    /\ importResult' = NoImportResult
    /\ prev' = IF prev.user = u /\ prev.input = n THEN prev ELSE NoPrev
    /\ UNCHANGED <<ledgerVars, importPageVars, tableVars, friendPage, account>>

\* importUserBalanceFromSplitWise handles its next friend record.
ImportUserRecord ==
    /\ imp.pc = "users"
    /\ imp.done < Len(ImportInput(imp.input).usersWithBalance)
    /\ userTable' = FindOrCreateUser(userTable,
                        ExternalEmail(ImportInput(imp.input).usersWithBalance[imp.done + 1].id))
    /\ balances' = ApplyExternalBalances(balances, imp.user,
                        UserByEmail(userTable',
                            ExternalEmail(ImportInput(imp.input).usersWithBalance[imp.done + 1].id)),
                        ImportInput(imp.input).usersWithBalance[imp.done + 1].balance)
    /\ imp' = [imp EXCEPT !.done = @ + 1]
    /\ last' = NoResponse
    /\ UNCHANGED <<expenses, clock, df, overlapped, importPageVars, groupTable,
                   importResult, prev, friendPage, account>>

\* The first await continuing into the second although the first threw.
ImportUsersThrew_Continue ==
    /\ imp.pc = "users"
    /\ imp.done < Len(ImportInput(imp.input).usersWithBalance)
    /\ imp' = [imp EXCEPT !.pc = "groups", !.done = 0]
    /\ UNCHANGED <<ledgerVars, importPageVars, tableVars, importResult, prev, friendPage, account>>

\* `await importUserBalanceFromSplitWise(...)` throws: the mutation fails and
\* importGroupFromSplitwise is not called.
ImportUsersThrew ==
    /\ imp.pc = "users"
    /\ imp.done < Len(ImportInput(imp.input).usersWithBalance)
    /\ imp' = NoImport
    /\ importResult' = [status |-> "error", phase |-> "users", user |-> imp.user,
                         input |-> imp.input, groupsBefore |-> imp.groupsBefore]
    /\ UNCHANGED <<ledgerVars, importPageVars, tableVars, prev, friendPage, account>>

\* The first await returns: importGroupFromSplitwise is called.
ImportUsersReturned ==
    /\ imp.pc = "users"
    /\ imp.done = Len(ImportInput(imp.input).usersWithBalance)
    /\ imp' = [imp EXCEPT !.pc = "groups", !.done = 0]
    /\ UNCHANGED <<ledgerVars, importPageVars, tableVars, importResult, prev, friendPage, account>>

\* importGroupFromSplitwise handles its next group record.
ImportGroupRecord ==
    /\ imp.pc = "groups"
    /\ imp.done < Len(ImportInput(imp.input).groups)
    /\ userTable' = FindOrCreateUsers(userTable, ImportInput(imp.input).groups[imp.done + 1].members)
    /\ groupTable' = UpsertGroup(groupTable, userTable', imp.user,
                                  ImportInput(imp.input).groups[imp.done + 1])
    /\ imp' = [imp EXCEPT !.done = @ + 1]
    /\ UNCHANGED <<ledgerVars, importPageVars, importResult, prev, friendPage, account>>

\* `await importGroupFromSplitwise(...)` throws: the mutation fails.
ImportGroupsThrew ==
    /\ imp.pc = "groups"
    /\ imp.done < Len(ImportInput(imp.input).groups)
    /\ imp' = NoImport
    /\ importResult' = [status |-> "error", phase |-> "groups", user |-> imp.user,
                         input |-> imp.input, groupsBefore |-> imp.groupsBefore]
    /\ UNCHANGED <<ledgerVars, importPageVars, tableVars, prev, friendPage, account>>

\* The second await returns: the mutation succeeds.
ImportGroupsReturned ==
    /\ imp.pc = "groups"
    /\ imp.done = Len(ImportInput(imp.input).groups)
    /\ imp' = NoImport
    /\ importResult' = [status |-> "OK", phase |-> "done", user |-> imp.user,
                         input |-> imp.input, groupsBefore |-> imp.groupsBefore]
    /\ prev' = IF prev.runs = 0
                THEN [user |-> imp.user, input |-> imp.input, runs |-> 1,
                      balances |-> balances, userTable |-> userTable, groupTable |-> groupTable]
                ELSE [prev EXCEPT !.runs = 2]
    /\ UNCHANGED <<ledgerVars, importPageVars, tableVars, friendPage, account>>

\* ----------------------------------------------------------- account page
\* <Button disabled={downloading} onClick={downloadData}>
DownloadDisabled == account.downloading

\* downloadData() up to its await: setDownloading(true), then the request is sent.
AccountDownloadClicked(u) ==
    /\ ~DownloadDisabled
    /\ account.pc # "awaiting"
    /\ account' = [account EXCEPT !.downloading = TRUE, !.pc = "awaiting", !.user = u]
    /\ UNCHANGED <<ledgerVars, importPageVars, tableVars, importVars, friendPage>>

\* mutateAsync() resolves with {friends, groups}: the file is saved and
\* setDownloading(false) runs.
AccountDownloadFulfilled ==
    /\ account.pc = "awaiting"
    /\ account' = [account EXCEPT !.downloading = FALSE, !.pc = "idle",
                                  !.file = [friends |-> GetCompleteFriendsDetails(account.user),
                                            groups |-> GetCompleteGroupDetails(account.user)]]
    /\ UNCHANGED <<ledgerVars, importPageVars, tableVars, importVars, friendPage>>

\* mutateAsync() rejects (the request or the procedure failed): the await
\* throws, nothing catches it, and the rest of downloadData() does not run.
AccountDownloadRejected ==
    /\ account.pc = "awaiting"
    /\ account' = [account EXCEPT !.pc = "threw"]
    /\ UNCHANGED <<ledgerVars, importPageVars, tableVars, importVars, friendPage>>

\* ------------------------------------------------------------------ claims
Mirror(k) == <<k[2], k[1], k[3]>>

Mirrored(bal) ==
    \A k \in DOMAIN bal : Mirror(k) \in DOMAIN bal /\ bal[Mirror(k)] = 0 - bal[k]

Between(k, u, f) == (k[1] = u /\ k[2] = f) \/ (k[1] = f /\ k[2] = u)

NonZeroBetween(bal, u, f) == \E k \in DOMAIN bal : Between(k, u, f) /\ bal[k] # 0

RowsBetween(bal, u, f) == {k \in DOMAIN bal : Between(k, u, f)}

\* C1: after any sequence of ledger operations that ran one after the other
\* (expense create, edit, delete and deleteFriend, each completed before the
\* next began), a row (A,B,c) = x exists iff the row (B,A,c) exists and is -x.
C1_MirroredAfterCompletedOperations ==
    (df.pc = "idle" /\ ~overlapped) => Mirrored(balances)

\* An expense in EUR was created and deleted, deleteFriend then removed the
\* settled EUR rows, and an expense in USD was created afterwards.
C1_Witness ==
    /\ df.pc = "idle" /\ ~overlapped
    /\ Len(expenses) = 2
    /\ expenses[1].currency = "EUR" /\ expenses[1].deletedBy # 0
    /\ <<1, 2, "EUR">> \notin DOMAIN balances
    /\ <<1, 2, "USD">> \in DOMAIN balances /\ balances[<<1, 2, "USD">>] = 5

\* C2: deleteFriend is rejected exactly when some row between the user and the
\* friend, in either direction and any currency, is non-zero at its check.
C2_RejectedIffNonZeroEitherDirection ==
    [][/\ (df.pc = "idle" /\ df'.pc = "checked")
            => ~NonZeroBetween(balances, df'.user, df'.friend)
       /\ (df.pc = "idle" /\ df' = df /\ last'.op = "deleteFriend")
            => (last'.err = "BAD_REQUEST"
                /\ NonZeroBetween(balances, last'.user, last'.friend))]_vars

\* C3: when deleteFriend has succeeded, no row between the user and the friend
\* is left, in either direction, for any currency.
C3_NoRowsAfterDeleteFriend ==
    (last.op = "deleteFriend" /\ last.err = "OK")
        => RowsBetween(balances, last.user, last.friend) = {}

\* C4: in every state a concurrent request can observe, the states between
\* the store calls of deleteFriend included, every row has its mirrored row
\* of negated amount.
C4_MirroredInEveryObservableState == Mirrored(balances)

\* C5: every row that a step removes from the store has amount zero when it
\* is removed.
C5_OnlyZeroRowsDeleted ==
    [][\A k \in DOMAIN balances : k \notin DOMAIN balances' => balances[k] = 0]_vars

\* C6: deleteExpense by a user without a participant row fails with
\* UNAUTHORIZED and changes neither the expense nor any balance; by a
\* participant it records the deletion and reverses the contribution of the
\* expense in every balance row.
C6_DeleteExpenseAuthorization ==
    [][(last'.op = "deleteExpense" /\ df' = df) =>
          LET e == last'.expense
              u == last'.user
          IN IF e \in DOMAIN expenses /\ u \in Participants(expenses[e])
             THEN /\ last'.err = "OK"
                  /\ expenses'[e].deletedBy = u
                  /\ expenses'[e].deletedAt # 0
                  /\ \A k \in DOMAIN balances \cup DOMAIN balances' :
                        Amt(balances', k) = Amt(balances, k) - Contribution(expenses[e], k)
             ELSE /\ last'.err = "UNAUTHORIZED"
                  /\ balances' = balances
                  /\ expenses' = expenses]_vars

\* User 3, who takes no part in expense 1, was refused while the expense
\* stands and its balance is outstanding.
C6_Witness ==
    /\ last.op = "deleteExpense" /\ last.err = "UNAUTHORIZED"
    /\ last.user = 3 /\ last.expense = 1
    /\ Len(expenses) >= 1 /\ expenses[1].deletedBy = 0
    /\ Amt(balances, <<1, 2, expenses[1].currency>>) # 0

\* C7: a deleteExpense call on an expense that is already deleted changes no
\* balance row and none of the expense's audit fields.
C7_DeleteExpenseIdempotent ==
    [][(/\ last'.op = "deleteExpense" /\ last'.err = "OK" /\ df' = df
        /\ expenses[last'.expense].deletedBy # 0)
          => (balances' = balances /\ expenses' = expenses)]_vars

\* C8: getBalancesWithFriend returns exactly the stored rows of the user with
\* the friend whose amount is not zero, each once.
C8_ExactlyNonZeroRowsOfPair ==
    last.op = "getBalancesWithFriend" =>
        /\ \A i \in DOMAIN last.rows :
              LET r == last.rows[i]
                  k == <<r.userId, r.friendId, r.currency>>
              IN /\ r.userId = last.user /\ r.friendId = last.friend
                 /\ r.amount # 0
                 /\ k \in DOMAIN balances /\ balances[k] = r.amount
        /\ \A c \in Currencies :
              (Amt(balances, <<last.user, last.friend, c>>) # 0)
                 => \E i \in DOMAIN last.rows : last.rows[i].currency = c
        /\ \A i, j \in DOMAIN last.rows :
              last.rows[i].currency = last.rows[j].currency => i = j

\* User 1 asked for the balances with user 2 while one row of the pair is
\* settled (zero), one is outstanding, and user 2 holds the mirrored rows.
C8_Witness ==
    /\ last.op = "getBalancesWithFriend" /\ last.user = 1 /\ last.friend = 2
    /\ Len(last.rows) = 1
    /\ \E c \in Currencies :
          <<1, 2, c>> \in DOMAIN balances /\ balances[<<1, 2, c>>] = 0
    /\ \E c \in Currencies : Amt(balances, <<2, 1, c>>) # 0

SortedByCurrency(rows) ==
    \A i, j \in DOMAIN rows :
        i < j => CurrencyRank(rows[i].currency) <= CurrencyRank(rows[j].currency)

\* C9: the returned balances, and the lists of amounts owed to the user and
\* amounts the user owes derived from them, are ordered by currency code.
C9_OrderedByCurrencyCode ==
    last.op = "getBalancesWithFriend" =>
        /\ SortedByCurrency(last.rows)
        /\ SortedByCurrency(YouLent(last.rows))
        /\ SortedByCurrency(YouOwe(last.rows))

\* C10: a file that loads leaves exactly its friends that are confirmed and
\* have a balance entry, and exactly its groups that have a member and an id
\* other than 0; no other friend or group is ever part of an import request.
C10_ImportFilters ==
    /\ lastRead.outcome = "ok" =>
          /\ Range(usersWithBalance) =
                {x \in Range(FileContent(lastRead.file).friends) :
                    x.registration_status = "confirmed" /\ Len(x.balance) >= 1}
          /\ Range(groups) =
                {g \in Range(FileContent(lastRead.file).groups) :
                    Len(g.members) >= 1 /\ g.id # 0}
    /\ \A x \in Range(importMutation.input.usersWithBalance) :
          x.registration_status = "confirmed" /\ Len(x.balance) >= 1
    /\ \A g \in Range(importMutation.input.groups) : Len(g.members) >= 1 /\ g.id # 0

\* File 1, which holds an unconfirmed friend, a friend without balances, the
\* "no group" entry and a group without members, was loaded and submitted.
C10_Witness ==
    /\ lastRead = [file |-> 1, outcome |-> "ok"]
    /\ importMutation.status = "pending"
    /\ importMutation.input.usersWithBalance = <<Alice>>
    /\ importMutation.input.groups = <<Trip>>

\* C12: when the read of a chosen file ends in the import error, the friend
\* list, the group list and both selections are what they were before.
C12_NoPartialApplicationOnParseFailure ==
    [][(reads' # reads /\ lastRead'.outcome = "error")
          => UNCHANGED <<usersWithBalance, groups, selectedUsers, selectedGroups>>]_vars

\* C16: whenever the Import button is enabled, the friends and the groups
\* it would submit are friends and groups of the file chosen last.
C16_ImportSubmitsTheChosenFile ==
    ImportEnabled =>
        /\ Range(usersWithBalance) \subseteq Range(FileContent(uploadedFile).friends)
        /\ Range(groups) \subseteq Range(FileContent(uploadedFile).groups)

\* C14: a deleteFriend that is rejected with the outstanding-balance error
\* leaves every balance row, in both directions, and every expense as it was.
C14_RejectedDeleteFriendChangesNothing ==
    [][(last'.op = "deleteFriend" /\ last'.err = "BAD_REQUEST")
          => (balances' = balances /\ expenses' = expenses /\ df' = df)]_vars

\* User 1 was refused the removal of user 2 while 5 EUR are outstanding.
C14_Witness ==
    /\ last.op = "deleteFriend" /\ last.err = "BAD_REQUEST"
    /\ last.user = 1 /\ last.friend = 2
    /\ Amt(balances, <<1, 2, "EUR">>) = 5 /\ Amt(balances, <<2, 1, "EUR">>) = -5

QueryOps == {"getBalancesWithFriend", "getFriends", "getFriend", "downloadData"}

\* C13: getBalancesWithFriend, getFriends, getFriend and downloadData are pure
\* reads: a step in which one of them completes leaves the Balance, Expense,
\* User and Group tables (and the server's time) as they were.
C13_QueriesArePureReads ==
    [][(last' # last /\ last'.op \in QueryOps)
          => UNCHANGED <<balances, expenses, clock, tableVars>>]_vars

\* user 1 downloads their data while a settled (zero) row with user 2 exists
C13_Witness ==
    /\ last.op = "downloadData" /\ last.user = 1
    /\ <<1, 2, "EUR">> \in DOMAIN balances /\ balances[<<1, 2, "EUR">>] = 0
    /\ Len(last.rows) = 1 /\ Cardinality(last.rows[1].friends) > 0

\* C18: every run of the account page's downloadData eventually resets
\* `downloading` to false, which re-enables the download button, whether the
\* request succeeds or fails.
C18_DownloadingEventuallyReset == account.downloading ~> ~DownloadDisabled

\* C17: the friend page's delete-friend control is enabled only when the
\* balances query has returned data with no entry of amount > 0 and none of
\* amount < 0; it is disabled while the balances are loading, and whenever the
\* data shown holds a non-zero balance (the deleteFriend precondition fails).
C17_DeleteFriendControl ==
    /\ ~DeleteFriendDisabled =>
          /\ friendPage.defined
          /\ \A i \in DOMAIN friendPage.data : friendPage.data[i].amount = 0
    /\ ~friendPage.defined => DeleteFriendDisabled
    /\ (\E i \in DOMAIN friendPage.data : friendPage.data[i].amount # 0) => DeleteFriendDisabled

\* user 2 looks at friend 1, owes them in both currencies, and the control is disabled
C17_Witness ==
    /\ friendPage.open /\ friendPage.user = 2 /\ friendPage.friendId = 1
    /\ friendPage.defined /\ Len(friendPage.data) = 2
    /\ \A i \in DOMAIN friendPage.data : friendPage.data[i].amount < 0
    /\ DeleteFriendDisabled

\* Every friend record of the input is in place: its user exists and both
\* mirrored rows hold the external amount.
FriendsApplied(u, n) ==
    \A i \in DOMAIN ImportInput(n).usersWithBalance :
        /\ HasEmail(userTable, ExternalEmail(ImportInput(n).usersWithBalance[i].id))
        /\ \A j \in DOMAIN ImportInput(n).usersWithBalance[i].balance :
              /\ Amt(balances, <<u, UserByEmail(userTable, ExternalEmail(ImportInput(n).usersWithBalance[i].id)),
                                 ImportInput(n).usersWithBalance[i].balance[j].currency_code>>)
                    = ImportInput(n).usersWithBalance[i].balance[j].amount
              /\ Amt(balances, <<UserByEmail(userTable, ExternalEmail(ImportInput(n).usersWithBalance[i].id)), u,
                                 ImportInput(n).usersWithBalance[i].balance[j].currency_code>>)
                    = 0 - ImportInput(n).usersWithBalance[i].balance[j].amount

\* C15: importUsersFromSplitWise applies the friend balances first and the
\* groups second: the group import runs only with every friend record applied,
\* no group is written during the friend import, a failure of the friend import
\* leaves the groups as they were, and a failure of the group import leaves the
\* friend balances in place.
C15_FriendsFirstThenGroupsNoRollback ==
    /\ imp.pc = "groups" => FriendsApplied(imp.user, imp.input)
    /\ imp.pc = "users" => groupTable = imp.groupsBefore
    /\ (importResult.status = "error" /\ importResult.phase = "users")
          => groupTable = importResult.groupsBefore
    /\ (importResult.status = "error" /\ importResult.phase = "groups")
          => FriendsApplied(importResult.user, importResult.input)

\* user 1's import of input 1 failed at its second group: the first group and
\* both friends' balances are in place
C15_Witness ==
    /\ importResult.status = "error" /\ importResult.phase = "groups"
    /\ importResult.user = 1 /\ importResult.input = 1
    /\ importResult.groupsBefore = << >> /\ Len(groupTable) = 1
    /\ FriendsApplied(1, 1)

NoDuplicateUsers == \A a, b \in DOMAIN userTable : userTable[a] = userTable[b] => a = b

NoDuplicateGroups ==
    \A a, b \in DOMAIN groupTable :
        groupTable[a].splitwiseGroupId = groupTable[b].splitwiseGroupId => a = b

\* C11: importUsersFromSplitWise is idempotent: after two or more successful
\* calls with the same input the users, the groups with their members and the
\* balance rows with their amounts are those the first call left, and no user
\* (by e-mail) or group (by external id) is there twice.
C11_ImportIdempotent ==
    /\ NoDuplicateUsers
    /\ NoDuplicateGroups
    /\ (importResult.status = "OK" /\ prev.runs = 2)
          => (balances = prev.balances /\ userTable = prev.userTable
              /\ groupTable = prev.groupTable)

\* user 1 has imported input 1 twice in succession
C11_Witness ==
    /\ importResult.status = "OK" /\ importResult.user = 1 /\ importResult.input = 1
    /\ prev.runs = 2 /\ prev.user = 1 /\ prev.input = 1
    /\ Len(groupTable) = 2 /\ FriendsApplied(1, 1)

\* ------------------------------------------------------------ specification
Init ==
    /\ balances = << >>
    /\ expenses = << >>
    /\ clock = 0
    /\ df = Idle
    /\ overlapped = FALSE
    /\ last = NoResponse
    /\ usersWithBalance = << >>
    /\ groups = << >>
    /\ selectedUsers = << >>
    /\ selectedGroups = << >>
    /\ uploadedFile = 0
    /\ reads = {}
    /\ choices = 0
    /\ importMutation = [status |-> "idle", input |-> NoInput]
    /\ toast = ""
    /\ lastRead = [file |-> 0, outcome |-> "none"]
    /\ userTable = [u \in Users |-> SessionEmail(u)]
    /\ groupTable = << >>
    /\ imp = NoImport
    /\ importResult = NoImportResult
    /\ prev = NoPrev
    /\ friendPage = ClosedFriendPage
    /\ account = AccountPageOpen

Next ==
    \/ \E p \in Pairs, c \in Currencies, s \in ShareAmounts : AddExpense(p[1], p[2], c, s)
    \/ \E e \in 1..MaxExpenses, u \in Users, p \in Pairs, c \in Currencies, s \in ShareAmounts :
          EditExpense(e, u, p[1], p[2], c, s)
    \/ \E e \in 1..MaxExpenses, u \in Users : DeleteExpense(e, u)
    \/ \E r \in FriendRequests : GetBalancesWithFriend(r[1], r[2])
    \/ \E r \in FriendRequests : DeleteFriendCheck(r[1], r[2])
    \/ DeleteFriendFirst
    \/ DeleteFriendSecond

Spec == Init /\ [][Next]_vars

\* The read procedures of the router beside the ledger writes.
NextQueries ==
    \/ \E p \in Pairs, c \in Currencies, s \in ShareAmounts : AddExpense(p[1], p[2], c, s)
    \/ \E e \in 1..MaxExpenses, u \in Users, p \in Pairs, c \in Currencies, s \in ShareAmounts :
          EditExpense(e, u, p[1], p[2], c, s)
    \/ \E e \in 1..MaxExpenses, u \in Users : DeleteExpense(e, u)
    \/ \E r \in FriendRequests : GetBalancesWithFriend(r[1], r[2])
    \/ \E u \in Users : GetFriends(u)
    \/ \E r \in FriendRequests : GetFriend(r[1], r[2])
    \/ \E u \in Users : DownloadData(u)

SpecQueries == Init /\ [][NextQueries]_vars

\* The account page beside the ledger writes. The request always settles: the
\* promise of mutateAsync() either resolves or rejects.
NextAccountPage ==
    \/ \E p \in Pairs, c \in Currencies, s \in ShareAmounts : AddExpense(p[1], p[2], c, s)
    \/ \E e \in 1..MaxExpenses, u \in Users, p \in Pairs, c \in Currencies, s \in ShareAmounts :
          EditExpense(e, u, p[1], p[2], c, s)
    \/ \E e \in 1..MaxExpenses, u \in Users : DeleteExpense(e, u)
    \/ \E u \in Users : AccountDownloadClicked(u)
    \/ AccountDownloadFulfilled
    \/ AccountDownloadRejected

SpecAccountPage ==
    Init /\ [][NextAccountPage]_vars /\ WF_vars(AccountDownloadFulfilled \/ AccountDownloadRejected)

\* The friend page beside the ledger writes.
NextFriendPage ==
    \/ \E p \in Pairs, c \in Currencies, s \in ShareAmounts : AddExpense(p[1], p[2], c, s)
    \/ \E e \in 1..MaxExpenses, u \in Users, p \in Pairs, c \in Currencies, s \in ShareAmounts :
          EditExpense(e, u, p[1], p[2], c, s)
    \/ \E e \in 1..MaxExpenses, u \in Users : DeleteExpense(e, u)
    \/ \E u \in {1, 2}, f \in RouteFriendIds : FriendPageOpened(u, f)
    \/ FriendPageBalancesFetched

SpecFriendPage == Init /\ [][NextFriendPage]_vars

\* importUsersFromSplitWise beside inviteFriend.
NextImport ==
    \/ \E u \in {1, 3}, email \in InviteEmails : InviteFriend(u, email)
    \/ \E r \in ImportRequests : ImportStart(r[1], r[2])
    \/ ImportUserRecord
    \/ ImportUsersThrew
    \/ ImportUsersReturned
    \/ ImportGroupRecord
    \/ ImportGroupsThrew
    \/ ImportGroupsReturned

SpecImport == Init /\ [][NextImport]_vars

\* The import page on its own.
NextImportPage ==
    \/ \E f \in Files : HandleFileChange(f)
    \/ \E f \in Files : FileTextResolved(f)
    \/ \E i \in 1..3, checked \in BOOLEAN : ToggleUser(i, checked)
    \/ \E i \in 1..3, checked \in BOOLEAN : ToggleGroup(i, checked)
    \/ OnImport
    \/ ImportSucceeded
    \/ ImportFailed

SpecImportPage == Init /\ [][NextImportPage]_vars
====
